---- MODULE Spec2Model ----
(***************************************************************************)
(* Model of the constraint cascade engine of decision_space_visualizer     *)
(* (src/src/constraints.py): apply_constraints and compute_boundary_items. *)
(*                                                                         *)
(* A DataFrame is a sequence of rows; a row is a record.  A candidate row  *)
(* has the columns id, score and case_type (case_type stands for the       *)
(* columns the engine carries along without reading them).  Ids are        *)
(* modelled as integers, ordered like the zero-padded strings 'C0001',     *)
(* 'C0002', ...  A score s stands for the real number s / ScoreScale, so   *)
(* the open interval (0,1) is 1..ScoreScale-1 and a threshold in [0,1] is  *)
(* 0..ScoreScale.  Python's None is the empty sequence, a present optional *)
(* value is a one-element sequence.                                        *)
(***************************************************************************)
EXTENDS Integers, Sequences, FiniteSets

VARIABLES df, call, result

vars == <<df, call, result>>

\* ---------------------------------------------------------------- bounds
MaxN == 3          \* largest population
NumIds == 3        \* distinct ids
ScoreScale == 3    \* scores are multiples of 1/ScoreScale
MaxK == 3          \* largest top_k and budget of a call

CaseTypes == {"base"}

Ids == 1..NumIds
Scores == 1..(ScoreScale - 1)
Thresholds == 0..ScoreScale
Capacities == 1..MaxK

Candidate == [id : Ids, score : Scores, case_type : CaseTypes]

\* ------------------------------------------------------- python helpers
None == <<>>

Some(x) == <<x>>

Min(a, b) == IF a <= b THEN a ELSE b

Max(a, b) == IF a >= b THEN a ELSE b

\* set(frame['id'])
IdSet(rows) == {rows[i].id : i \in 1..Len(rows)}

\* frame.iloc[:n] with Python's slice rules (a negative stop counts from the end)
iloc_head(rows, n) ==
    LET stop == IF n < 0 THEN Max(Len(rows) + n, 0) ELSE Min(n, Len(rows))
    IN  SubSeq(rows, 1, stop)

\* frame.iloc[-1]; raises IndexError on an empty frame, so callers guard it
iloc_last(rows) == rows[Len(rows)]

\* lexicographic order on key tuples of equal length
LexLess(a, b) ==
    \E i \in 1..Len(a) :
        /\ a[i] < b[i]
        /\ \A j \in 1..(i - 1) : a[j] = b[j]

\* the positions 1..m in the order a stable sort by keys puts them: position
\* m goes behind every earlier position whose key is not greater
RECURSIVE SortedOrder(_, _)
SortedOrder(keys, m) ==
    IF m = 0 THEN <<>>
    ELSE LET prev == SortedOrder(keys, m - 1)
             pos == Cardinality({q \in 1..(m - 1) :
                                    ~LexLess(keys[m], keys[prev[q]])})
         IN  SubSeq(prev, 1, pos) \o <<m>> \o SubSeq(prev, pos + 1, m - 1)

\* frame.sort_values(..., kind='mergesort').reset_index(drop=True):
\* a stable sort of rows by the parallel sequence of keys
sort_values(rows, keys) ==
    LET order == SortedOrder(keys, Len(rows))
    IN  [p \in 1..Len(rows) |-> rows[order[p]]]

\* mutant: ties broken by id descending
ScoreIdKey_IdDesc(r) == <<0 - r.score, 0 - r.id>>

\* mutant: sorted by score alone, ties left in input order
ScoreIdKey_ScoreOnly(r) == <<0 - r.score>>

\* mutant: sorted by score ascending
ScoreIdKey_Ascending(r) == <<r.score, r.id>>

\* ['score', 'id'], ascending=[False, True]
ScoreIdKey(r) == <<0 - r.score, r.id>>

\* mutant: dropped sorted by score and id only
MarginKey_ScoreOnly(r) == <<0 - r.score, r.id>>

\* ['inclusion_margin', 'score', 'id'], ascending=[True, False, True]
MarginKey(r) == <<r.inclusion_margin, 0 - r.score, r.id>>

\* -------------------------------------------------------------- cascade
SortCandidates(frame) ==
    sort_values(frame, [i \in 1..Len(frame) |-> ScoreIdKey(frame[i])])

\* mutant: exclusive boundary
ThresholdFilter_Strict(all_candidates, threshold) ==
    SelectSeq(all_candidates, LAMBDA r : r.score > threshold)

ThresholdFilter(all_candidates, threshold) ==
    SelectSeq(all_candidates, LAMBDA r : r.score >= threshold)

\* mutant: slice one row too long
TopKFilter_OffByOne(after_threshold, top_k) ==
    LET k_actual == Min(top_k, Len(after_threshold))
    IN  iloc_head(after_threshold, k_actual + 1)

TopKFilter(after_threshold, top_k) ==
    LET k_actual == Min(top_k, Len(after_threshold))
    IN  iloc_head(after_threshold, k_actual)

BudgetActual(after_topk, budget) == Min(budget, Len(after_topk))

\* mutant: slice one row too long
BudgetCap_OffByOne(after_topk, budget) ==
    iloc_head(after_topk, BudgetActual(after_topk, budget) + 1)

BudgetCap(after_topk, budget) ==
    iloc_head(after_topk, BudgetActual(after_topk, budget))

\* mutant: margin with the operands swapped
DroppedRow_Swapped(r, stage, cutoff_score) ==
    [id |-> r.id, score |-> r.score, case_type |-> r.case_type,
     dropped_reason |-> "eligible but dropped by capacity",
     capacity_stage |-> stage,
     inclusion_margin |-> r.score - cutoff_score]

DroppedRow(r, stage, cutoff_score) ==
    [id |-> r.id, score |-> r.score, case_type |-> r.case_type,
     dropped_reason |-> "eligible but dropped by capacity",
     capacity_stage |-> stage,
     inclusion_margin |-> cutoff_score - r.score]

\* rows of after_threshold whose id is not in after_topk, with reason and margin
OutsideTopK(after_threshold, after_topk) ==
    LET outside_topk == SelectSeq(after_threshold,
                            LAMBDA r : r.id \notin IdSet(after_topk))
        kth_score == iloc_last(after_topk).score
    IN  [i \in 1..Len(outside_topk) |->
            DroppedRow(outside_topk[i], "top_k", kth_score)]

\* mutant: the budget block keeps the stage label of the top-K block
OverBudget_CopyStage(after_topk, shown) ==
    LET shown_ids == IdSet(shown)
        over_budget == SelectSeq(after_topk, LAMBDA r : r.id \notin shown_ids)
        budget_score == iloc_last(shown).score
    IN  [i \in 1..Len(over_budget) |->
            DroppedRow(over_budget[i], "top_k", budget_score)]

\* rows of after_topk whose id is not in shown, with reason and margin
OverBudget(after_topk, shown) ==
    LET shown_ids == IdSet(shown)
        over_budget == SelectSeq(after_topk, LAMBDA r : r.id \notin shown_ids)
        budget_score == iloc_last(shown).score
    IN  [i \in 1..Len(over_budget) |->
            DroppedRow(over_budget[i], "budget", budget_score)]

\* mutant: the budget block as an elif of the top-K block
DroppedCandidates_Elif(after_threshold, after_topk, shown) ==
    IF Len(after_topk) < Len(after_threshold)
      THEN OutsideTopK(after_threshold, after_topk)
    ELSE IF Len(shown) < Len(after_topk)
      THEN OverBudget(after_topk, shown)
    ELSE <<>>

DroppedCandidates(after_threshold, after_topk, shown) ==
    (IF Len(after_topk) < Len(after_threshold)
       THEN OutsideTopK(after_threshold, after_topk) ELSE <<>>)
    \o
    (IF Len(shown) < Len(after_topk)
       THEN OverBudget(after_topk, shown) ELSE <<>>)

\* df.columns
InputColumns == <<"id", "score", "case_type">>

\* the columns the drop blocks add
DroppedExtraColumns == <<"dropped_reason", "capacity_stage", "inclusion_margin">>

\* mutant: no drops gives a frame without columns
DroppedColumns_Bare(dropped_candidates) ==
    IF dropped_candidates # <<>>
      THEN InputColumns \o DroppedExtraColumns
      ELSE <<>>

\* dropped.columns: of the concatenated blocks, or of the empty frame built
\* with the schema when there are no drops
DroppedColumns(dropped_candidates) ==
    IF dropped_candidates # <<>>
      THEN InputColumns \o DroppedExtraColumns
      ELSE InputColumns \o DroppedExtraColumns

SortDropped(dropped_candidates) ==
    sort_values(dropped_candidates,
                [i \in 1..Len(dropped_candidates) |->
                    MarginKey(dropped_candidates[i])])

\* mutant: the budget boundary read from after_topk instead of shown
compute_boundary_items_Copy(after_threshold, after_topk, shown, threshold, top_k, budget, budget_actual) ==
    LET is_topk_binding == top_k < Len(after_threshold)
        kth == Len(after_topk) > 0 /\ is_topk_binding
        is_budget_binding == /\ Len(shown) = budget_actual
                             /\ budget_actual < Len(after_topk)
        bud == Len(shown) > 0 /\ is_budget_binding
    IN  [threshold |-> threshold, top_k |-> top_k, budget |-> budget,
         kth_score |-> IF kth THEN Some(iloc_last(after_topk).score) ELSE None,
         kth_item |-> IF kth THEN Some(iloc_last(after_topk)) ELSE None,
         budget_score |-> IF bud THEN Some(iloc_last(after_topk).score) ELSE None,
         budget_item |-> IF bud THEN Some(iloc_last(after_topk)) ELSE None]

\* mutant: the budget gate counted as binding whenever budget <= top_k
compute_boundary_items_Loose(after_threshold, after_topk, shown, threshold, top_k, budget, budget_actual) ==
    LET is_topk_binding == top_k < Len(after_threshold)
        kth == Len(after_topk) > 0 /\ is_topk_binding
        is_budget_binding == budget <= top_k
        bud == Len(shown) > 0 /\ is_budget_binding
    IN  [threshold |-> threshold, top_k |-> top_k, budget |-> budget,
         kth_score |-> IF kth THEN Some(iloc_last(after_topk).score) ELSE None,
         kth_item |-> IF kth THEN Some(iloc_last(after_topk)) ELSE None,
         budget_score |-> IF bud THEN Some(iloc_last(shown).score) ELSE None,
         budget_item |-> IF bud THEN Some(iloc_last(shown)) ELSE None]

\* mutant: top-K counted as binding when top_k equals the eligible count
compute_boundary_items_Le(after_threshold, after_topk, shown, threshold, top_k, budget, budget_actual) ==
    LET is_topk_binding == top_k <= Len(after_threshold)
        kth == Len(after_topk) > 0 /\ is_topk_binding
        is_budget_binding == /\ Len(shown) = budget_actual
                             /\ budget_actual < Len(after_topk)
        bud == Len(shown) > 0 /\ is_budget_binding
    IN  [threshold |-> threshold, top_k |-> top_k, budget |-> budget,
         kth_score |-> IF kth THEN Some(iloc_last(after_topk).score) ELSE None,
         kth_item |-> IF kth THEN Some(iloc_last(after_topk)) ELSE None,
         budget_score |-> IF bud THEN Some(iloc_last(shown).score) ELSE None,
         budget_item |-> IF bud THEN Some(iloc_last(shown)) ELSE None]

compute_boundary_items(after_threshold, after_topk, shown, threshold, top_k, budget, budget_actual) ==
    LET is_topk_binding == top_k < Len(after_threshold)
        kth == Len(after_topk) > 0 /\ is_topk_binding
        is_budget_binding == /\ Len(shown) = budget_actual
                             /\ budget_actual < Len(after_topk)
        bud == Len(shown) > 0 /\ is_budget_binding
    IN  [threshold |-> threshold, top_k |-> top_k, budget |-> budget,
         kth_score |-> IF kth THEN Some(iloc_last(after_topk).score) ELSE None,
         kth_item |-> IF kth THEN Some(iloc_last(after_topk)) ELSE None,
         budget_score |-> IF bud THEN Some(iloc_last(shown).score) ELSE None,
         budget_item |-> IF bud THEN Some(iloc_last(shown)) ELSE None]

\* mutant: n_dropped counts the top-K drops only
Counts_TopKOnly(all_candidates, after_threshold, after_topk, shown, dropped) ==
    [n_total |-> Len(all_candidates),
     n_after_threshold |-> Len(after_threshold),
     n_after_topk |-> Len(after_topk),
     n_shown |-> Len(shown),
     n_dropped |-> Len(after_threshold) - Len(after_topk)]

Counts(all_candidates, after_threshold, after_topk, shown, dropped) ==
    [n_total |-> Len(all_candidates),
     n_after_threshold |-> Len(after_threshold),
     n_after_topk |-> Len(after_topk),
     n_shown |-> Len(shown),
     n_dropped |-> Len(dropped)]

\* mutant: the margin assertion demands strictly positive margins
InvariantChecks_Strict(after_threshold, shown, dropped, counts) ==
    IF IdSet(shown) \cup IdSet(dropped) # IdSet(after_threshold)
      THEN "Partition invariant violated"
    ELSE IF IdSet(shown) \cap IdSet(dropped) # {}
      THEN "Disjoint invariant violated"
    ELSE IF counts.n_shown + counts.n_dropped # counts.n_after_threshold
      THEN "Count invariant violated"
    ELSE IF /\ Len(dropped) > 0
            /\ \E i \in 1..Len(dropped) : dropped[i].inclusion_margin <= 0
      THEN "Negative margins detected"
    ELSE "ok"

\* the inline assertions; the first failing one names the error
InvariantChecks(after_threshold, shown, dropped, counts) ==
    IF IdSet(shown) \cup IdSet(dropped) # IdSet(after_threshold)
      THEN "Partition invariant violated"
    ELSE IF IdSet(shown) \cap IdSet(dropped) # {}
      THEN "Disjoint invariant violated"
    ELSE IF counts.n_shown + counts.n_dropped # counts.n_after_threshold
      THEN "Count invariant violated"
    ELSE IF /\ Len(dropped) > 0
            /\ \E i \in 1..Len(dropped) : dropped[i].inclusion_margin < 0
      THEN "Negative margins detected"
    ELSE "ok"

Raise(kind, message) == [status |-> kind, message |-> message]

\* mutant: the cutoff scores read before the length tests
IndexErrorRaised_Hoisted(after_threshold, after_topk, shown) ==
    \/ Len(after_topk) = 0
    \/ Len(shown) = 0

\* after_topk.iloc[-1] or shown.iloc[-1] is read on an empty frame
IndexErrorRaised(after_threshold, after_topk, shown) ==
    \/ Len(after_topk) < Len(after_threshold) /\ Len(after_topk) = 0
    \/ Len(shown) < Len(after_topk) /\ Len(shown) = 0

apply_constraints(frame, threshold, top_k, budget) ==
    LET all_candidates == SortCandidates(frame)
        after_threshold == ThresholdFilter(all_candidates, threshold)
        after_topk == TopKFilter(after_threshold, top_k)
        budget_actual == BudgetActual(after_topk, budget)
        shown == BudgetCap(after_topk, budget)
    IN  IF IndexErrorRaised(after_threshold, after_topk, shown)
          THEN Raise("IndexError", "single positional indexer is out-of-bounds")
        ELSE
          LET dropped_candidates ==
                  DroppedCandidates(after_threshold, after_topk, shown)
              dropped == SortDropped(dropped_candidates)
              boundary_items == compute_boundary_items(
                                  after_threshold, after_topk, shown,
                                  threshold, top_k, budget, budget_actual)
              counts == Counts(all_candidates, after_threshold, after_topk,
                               shown, dropped)
              check == InvariantChecks(after_threshold, shown, dropped, counts)
          IN  IF check # "ok"
                THEN Raise("AssertionError", check)
              ELSE [status |-> "ok",
                    all_candidates |-> all_candidates,
                    after_threshold |-> after_threshold,
                    after_topk |-> after_topk,
                    shown |-> shown,
                    dropped |-> dropped,
                    dropped_columns |-> DroppedColumns(dropped_candidates),
                    boundary_items |-> boundary_items,
                    counts |-> counts]

\* mutant: only the top-K stage is looked up
get_boundary_for_stage_TopKOnly(closest, boundary, top_k, budget) ==
    IF closest.capacity_stage = "top_k" /\ boundary.kth_item # None
      THEN <<boundary.kth_item, <<"Kth item", top_k>>>>
    ELSE <<None, <<>>>>

\* app.get_boundary_for_stage: the boundary item and its label for the stage
\* of the closest dropped candidate; the label f"Kth item (K={top_k})" is the
\* pair of its text and its number, the empty label the empty sequence
get_boundary_for_stage(closest, boundary, top_k, budget) ==
    IF closest.capacity_stage = "top_k" /\ boundary.kth_item # None
      THEN <<boundary.kth_item, <<"Kth item", top_k>>>>
    ELSE IF closest.capacity_stage = "budget" /\ boundary.budget_item # None
      THEN <<boundary.budget_item, <<"Budget boundary", budget>>>>
    ELSE <<None, <<>>>>

\* --------------------------------------------------------- state machine
\* populations the input contract allows: at most MaxN rows, unique ids
UniqueIds(rows) == \A i, j \in 1..Len(rows) : rows[i].id = rows[j].id => i = j

ValidPopulations ==
    UNION {{rows \in [1..n -> Candidate] : UniqueIds(rows)} : n \in 0..MaxN}

NoCall == [status |-> "none"]

Init ==
    /\ df \in ValidPopulations
    /\ call = NoCall
    /\ result = NoCall

\* the call apply_constraints(df, threshold, top_k, budget) on the population
Apply(threshold, top_k, budget) ==
    /\ call = NoCall
    /\ call' = [status |-> "called", threshold |-> threshold,
                top_k |-> top_k, budget |-> budget]
    /\ result' = apply_constraints(df, threshold, top_k, budget)
    /\ UNCHANGED df

Next ==
    \E threshold \in Thresholds, top_k \in Capacities, budget \in Capacities :
        Apply(threshold, top_k, budget)

Spec == Init /\ [][Next]_vars

\* The tie-breaking population of four, given in the order C0003, C0001,
\* C0002, C0004 with scores 0.6, 0.5, 0.5, 0.4; scores and thresholds of this
\* specification are counted in tenths.
ScenarioRows ==
    << [id |-> 3, score |-> 6, case_type |-> "base"],
       [id |-> 1, score |-> 5, case_type |-> "base"],
       [id |-> 2, score |-> 5, case_type |-> "base"],
       [id |-> 4, score |-> 4, case_type |-> "base"] >>

ScenarioThresholds == 0..10

ScenarioCapacities == 1..(Len(ScenarioRows) + 1)

InitScenario ==
    /\ df = ScenarioRows
    /\ call = NoCall
    /\ result = NoCall

NextScenario ==
    \E threshold \in ScenarioThresholds :
        \E top_k \in ScenarioCapacities, budget \in ScenarioCapacities :
            Apply(threshold, top_k, budget)

SpecScenario == InitScenario /\ [][NextScenario]_vars

\* Calls whose parameters the caller did not restrict: thresholds beyond
\* [0,1] and capacities that are zero or negative, on a valid population.
AnyThresholds == (0 - 1)..(ScoreScale + 1)

AnyCapacities == (0 - MaxK)..MaxK

NextAnyParameters ==
    \E threshold \in AnyThresholds :
        \E top_k \in AnyCapacities, budget \in AnyCapacities :
            Apply(threshold, top_k, budget)

SpecAnyParameters == Init /\ [][NextAnyParameters]_vars

\* Populations in which an id may occur more than once, with valid parameters.
AnyPopulations == UNION {[1..n -> Candidate] : n \in 0..MaxN}

InitAnyPopulation ==
    /\ df \in AnyPopulations
    /\ call = NoCall
    /\ result = NoCall

SpecAnyPopulation == InitAnyPopulation /\ [][Next]_vars

\* the records of rows in ascending id order, the order in which
\* generate_candidates supplies them
IdOrder(rows) == sort_values(rows, [i \in 1..Len(rows) |-> <<rows[i].id>>])

\* ------------------------------------------------- concurrent invocations
\* Several invocations of apply_constraints run against one shared population
\* df without locks.  call[i] is the frame of invocation i: its position pc,
\* its parameters and the local frames it has assigned so far; result[i] is
\* what it returned.  A step is one of the blocks of apply_constraints, and
\* the steps of different invocations interleave in every order.
MaxInvocations == 2

Invocations == 1..MaxInvocations

\* the tie-breaking population in the id order generate_candidates supplies
SharedRows == IdOrder(ScenarioRows)

ConcurrentThresholds == {4, 6}

ConcurrentTopK == {1, 3}

ConcurrentBudgets == {1, 2}

Idle == [pc |-> "idle"]

\* mutant: df.sort_values(..., inplace=True)
InputAfterSort_InPlace(frame, all_candidates) == all_candidates

\* df after df.sort_values(...): the sort returns a new frame and leaves df
InputAfterSort(frame, all_candidates) == frame

\* mutant: the selection is a view, and the columns set on it reach the rows
\* of the frame it was selected from
AfterColumnAssign_View(parent, assigned) ==
    [i \in 1..Len(parent) |->
        IF \E j \in 1..Len(assigned) : assigned[j].id = parent[i].id
          THEN assigned[CHOOSE j \in 1..Len(assigned) :
                            assigned[j].id = parent[i].id]
          ELSE parent[i]]

\* the frame a drop block was selected from, after the block's three column
\* assignments: the block is a .copy(), so the frame keeps its rows
AfterColumnAssign(parent, assigned) == parent

InitConcurrent ==
    /\ df = SharedRows
    /\ call = [i \in Invocations |-> Idle]
    /\ result = [i \in Invocations |-> NoCall]

\* the parameter tuples of the invocations that were called
ParametersInFlight ==
    {<<call[j].threshold, call[j].top_k, call[j].budget>> :
        j \in {k \in Invocations : call[k].pc # "idle"}}

\* invocation i is called; the invocations in flight have distinct parameters
Invoke(i, threshold, top_k, budget) ==
    /\ call[i].pc = "idle"
    /\ <<threshold, top_k, budget>> \notin ParametersInFlight
    /\ call' = [call EXCEPT ![i] = [pc |-> "sort", threshold |-> threshold,
                                    top_k |-> top_k, budget |-> budget]]
    /\ UNCHANGED <<df, result>>

\* lines 107-112: the only read of the shared population
Sort(i) ==
    /\ call[i].pc = "sort"
    /\ LET all_candidates == SortCandidates(df)
       IN  /\ df' = InputAfterSort(df, all_candidates)
           /\ call' = [call EXCEPT ![i] =
                         [pc |-> "gates", threshold |-> call[i].threshold,
                          top_k |-> call[i].top_k, budget |-> call[i].budget,
                          all_candidates |-> all_candidates]]
    /\ UNCHANGED result

\* lines 114-125: the three gates
Gates(i) ==
    /\ call[i].pc = "gates"
    /\ LET after_threshold == ThresholdFilter(call[i].all_candidates,
                                              call[i].threshold)
           after_topk == TopKFilter(after_threshold, call[i].top_k)
           shown == BudgetCap(after_topk, call[i].budget)
       IN  call' = [call EXCEPT ![i] =
                     [pc |-> "drops", threshold |-> call[i].threshold,
                      top_k |-> call[i].top_k, budget |-> call[i].budget,
                      all_candidates |-> call[i].all_candidates,
                      after_threshold |-> after_threshold,
                      after_topk |-> after_topk,
                      budget_actual |-> BudgetActual(after_topk, call[i].budget),
                      shown |-> shown]]
    /\ UNCHANGED <<df, result>>

\* lines 127-168: the drop blocks and the dropped frame
Drops(i) ==
    /\ call[i].pc = "drops"
    /\ LET c == call[i]
       IN  IF IndexErrorRaised(c.after_threshold, c.after_topk, c.shown)
             THEN /\ result' = [result EXCEPT ![i] =
                       Raise("IndexError",
                             "single positional indexer is out-of-bounds")]
                  /\ call' = [call EXCEPT ![i].pc = "done"]
           ELSE
             LET outside_topk ==
                     IF Len(c.after_topk) < Len(c.after_threshold)
                       THEN OutsideTopK(c.after_threshold, c.after_topk)
                       ELSE <<>>
                 over_budget ==
                     IF Len(c.shown) < Len(c.after_topk)
                       THEN OverBudget(c.after_topk, c.shown)
                       ELSE <<>>
                 dropped_candidates ==
                     DroppedCandidates(c.after_threshold, c.after_topk, c.shown)
             IN  /\ call' = [call EXCEPT ![i] =
                       [pc |-> "finish", threshold |-> c.threshold,
                        top_k |-> c.top_k, budget |-> c.budget,
                        all_candidates |-> c.all_candidates,
                        after_threshold |->
                            AfterColumnAssign(c.after_threshold, outside_topk),
                        after_topk |->
                            AfterColumnAssign(c.after_topk, over_budget),
                        budget_actual |-> c.budget_actual,
                        shown |-> c.shown,
                        dropped |-> SortDropped(dropped_candidates),
                        dropped_columns |-> DroppedColumns(dropped_candidates)]]
                 /\ UNCHANGED result
    /\ UNCHANGED df

\* lines 170-206: boundary items, counts, the assertions and the return
Finish(i) ==
    /\ call[i].pc = "finish"
    /\ LET c == call[i]
           counts == Counts(c.all_candidates, c.after_threshold, c.after_topk,
                            c.shown, c.dropped)
           check == InvariantChecks(c.after_threshold, c.shown, c.dropped,
                                    counts)
       IN  result' = [result EXCEPT ![i] =
               IF check # "ok"
                 THEN Raise("AssertionError", check)
               ELSE [status |-> "ok",
                     all_candidates |-> c.all_candidates,
                     after_threshold |-> c.after_threshold,
                     after_topk |-> c.after_topk,
                     shown |-> c.shown,
                     dropped |-> c.dropped,
                     dropped_columns |-> c.dropped_columns,
                     boundary_items |-> compute_boundary_items(
                                          c.after_threshold, c.after_topk,
                                          c.shown, c.threshold, c.top_k,
                                          c.budget, c.budget_actual),
                     counts |-> counts]]
    /\ call' = [call EXCEPT ![i].pc = "done"]
    /\ UNCHANGED df

NextConcurrent ==
    \E i \in Invocations :
        \/ \E threshold \in ConcurrentThresholds :
              \E top_k \in ConcurrentTopK, budget \in ConcurrentBudgets :
                  Invoke(i, threshold, top_k, budget)
        \/ Sort(i)
        \/ Gates(i)
        \/ Drops(i)
        \/ Finish(i)

SpecConcurrent == InitConcurrent /\ [][NextConcurrent]_vars

\* --------------------------------------------------- candidate generation
MaxCandidates == 12    \* largest n_candidates
EdgeBits == 4          \* edge fractions are multiples of 1 / 2^EdgeBits

\* An edge_fraction e stands for the real number e / EdgeScale.  These
\* fractions and their products with n_candidates are exact in binary
\* floating point, so int() is the floor of the exact product.
EdgeScale == 2 ^ EdgeBits

EdgeFractions == 0..EdgeScale

Seeds == {42, 99}

EDGE_CASE_TEMPLATES == 3

\* a frame of n rows that all have the given case_type
TemplateRows(case_type, n) == [i \in 1..n |-> [case_type |-> case_type]]

\* mutant: the borderline template gets the same share as the other two
BorderlineCount_NoRemainder(n_edge, n_per_edge_template) == n_per_edge_template

\* n_borderline: what the first two templates leave of n_edge
BorderlineCount(n_edge, n_per_edge_template) ==
    n_edge - (EDGE_CASE_TEMPLATES - 1) * n_per_edge_template

\* data.generate_candidates.  The four feature columns, drawn from the
\* seeded generator, are not read by the cascade and are left out of the
\* rows; ids are the row numbers 0, 1, ... behind 'C' in 'C0000', 'C0001', ...
generate_candidates(seed, n_candidates, edge_fraction) ==
    LET n_base == (n_candidates * (EdgeScale - edge_fraction)) \div EdgeScale
        n_edge == n_candidates - n_base
        n_per_edge_template == n_edge \div EDGE_CASE_TEMPLATES
        n_borderline == BorderlineCount(n_edge, n_per_edge_template)
        frame == TemplateRows("base", n_base)
                 \o TemplateRows("high_urg_low_conf", n_per_edge_template)
                 \o TemplateRows("high_impact_high_cost", n_per_edge_template)
                 \o TemplateRows("borderline", n_borderline)
    IN  [i \in 1..Len(frame) |->
            [id |-> i - 1, case_type |-> frame[i].case_type]]

InitGenerate ==
    /\ df = <<>>
    /\ call = NoCall
    /\ result = NoCall

\* the call generate_candidates(seed, n_candidates, edge_fraction), whose
\* return value becomes the population
Generate(seed, n_candidates, edge_fraction) ==
    /\ call = NoCall
    /\ call' = [status |-> "generated", seed |-> seed,
                n_candidates |-> n_candidates,
                edge_fraction |-> edge_fraction]
    /\ df' = generate_candidates(seed, n_candidates, edge_fraction)
    /\ UNCHANGED result

NextGenerate ==
    \E seed \in Seeds, n_candidates \in 0..MaxCandidates :
        \E edge_fraction \in EdgeFractions :
            Generate(seed, n_candidates, edge_fraction)

SpecGenerate == InitGenerate /\ [][NextGenerate]_vars

\* ------------------------------------------------------------ properties
Called == call.status = "called"

Returned == result.status = "ok"

RowSet(rows) == {rows[i] : i \in 1..Len(rows)}

Occurrences(x, rows) == Cardinality({i \in 1..Len(rows) : rows[i] = x})

IsPermutation(a, b) ==
    /\ Len(a) = Len(b)
    /\ \A x \in RowSet(a) \cup RowSet(b) : Occurrences(x, a) = Occurrences(x, b)

IsPrefixOfLength(p, rows, n) ==
    /\ Len(p) = n
    /\ n <= Len(rows)
    /\ \A i \in 1..n : p[i] = rows[i]

HasStage(rows, stage) == \E i \in 1..Len(rows) : rows[i].capacity_stage = stage

\* C1: every call on a valid input returns, and in what it returns the ids of
\* shown together with the ids of dropped are exactly the ids of
\* after_threshold, and no id is both shown and dropped.
C1_Partition ==
    Called =>
        /\ Returned
        /\ IdSet(result.shown) \cup IdSet(result.dropped)
             = IdSet(result.after_threshold)
        /\ IdSet(result.shown) \cap IdSet(result.dropped) = {}

C1_Witness ==
    /\ Returned
    /\ result.shown # <<>>
    /\ HasStage(result.dropped, "top_k")
    /\ HasStage(result.dropped, "budget")

\* C2: every call on a valid input returns counts that are the row counts of
\* the sequences, with n_shown + n_dropped = n_after_threshold, and neither
\* shown nor dropped holds an id twice.
C2_Counts ==
    Called =>
        /\ Returned
        /\ result.counts.n_shown = Len(result.shown)
        /\ result.counts.n_dropped = Len(result.dropped)
        /\ result.counts.n_after_threshold = Len(result.after_threshold)
        /\ result.counts.n_shown + result.counts.n_dropped
             = result.counts.n_after_threshold
        /\ Cardinality(IdSet(result.shown)) = Len(result.shown)
        /\ Cardinality(IdSet(result.dropped)) = Len(result.dropped)

C2_Witness ==
    /\ Returned
    /\ result.counts.n_shown > 0
    /\ result.counts.n_dropped > 1
    /\ HasStage(result.dropped, "budget")

\* C3: every call on a valid input returns a ResultBundle: no inline
\* assertion fires and no other error is raised.
C3_Total == Called => Returned

C3_Witness ==
    /\ Returned
    /\ df # <<>>
    /\ result.after_threshold = <<>>
    /\ call.top_k > Len(result.after_threshold)
    /\ call.budget > Len(result.after_topk)

\* C4: all_candidates is a permutation of the input population in which every
\* element is followed by one of lower score, or of equal score and higher id.
C4_CanonicalOrder ==
    Returned =>
        /\ IsPermutation(result.all_candidates, df)
        /\ \A i \in 1..(Len(result.all_candidates) - 1) :
              LET a == result.all_candidates[i]
                  b == result.all_candidates[i + 1]
              IN  \/ a.score > b.score
                  \/ (a.score = b.score /\ a.id < b.id)

C4_Witness ==
    /\ Returned
    /\ \E i, j \in 1..Len(df) :
          i < j /\ df[i].score = df[j].score /\ df[i].id > df[j].id
    /\ \E i, j \in 1..Len(df) : i < j /\ df[i].score < df[j].score

\* C5: after_threshold holds, in the order of all_candidates, exactly the
\* candidates whose score is at least the threshold (a score equal to the
\* threshold passes), and a candidate below the threshold is in none of
\* after_threshold, after_topk, shown and dropped.
C5_Threshold ==
    Returned =>
        LET ac == result.all_candidates
            at == result.after_threshold
            passing == {i \in 1..Len(ac) : ac[i].score >= call.threshold}
            pos(i) == Cardinality({j \in passing : j <= i})
        IN  /\ Len(at) = Cardinality(passing)
            /\ \A i \in passing : at[pos(i)] = ac[i]
            /\ \A i \in 1..Len(ac) :
                  ac[i].score = call.threshold => ac[i] \in RowSet(at)
            /\ \A i \in 1..Len(ac) :
                  ac[i].score < call.threshold =>
                      ac[i].id \notin IdSet(at) \cup IdSet(result.after_topk)
                                 \cup IdSet(result.shown) \cup IdSet(result.dropped)

C5_Witness ==
    /\ Returned
    /\ \E i \in 1..Len(df) : df[i].score = call.threshold
    /\ \E i \in 1..Len(df) : df[i].score < call.threshold
    /\ Len(result.after_threshold) > 1

\* C6: after_topk is the first min(top_k, |after_threshold|) elements of
\* after_threshold, and all of after_threshold when top_k is at least its length.
C6_TopK ==
    Returned =>
        /\ IsPrefixOfLength(result.after_topk, result.after_threshold,
                            Min(call.top_k, Len(result.after_threshold)))
        /\ call.top_k >= Len(result.after_threshold)
             => result.after_topk = result.after_threshold

C6_Witness ==
    /\ Returned
    /\ call.top_k < Len(result.after_threshold)
    /\ Len(result.after_topk) > 1

\* C7: shown is the first min(budget, |after_topk|) elements of after_topk,
\* so |shown| = min(budget, top_k, |after_threshold|).
C7_Budget ==
    Returned =>
        /\ IsPrefixOfLength(result.shown, result.after_topk,
                            Min(call.budget, Len(result.after_topk)))
        /\ Len(result.shown)
             = Min(call.budget, Min(call.top_k, Len(result.after_threshold)))

C7_Witness ==
    /\ Returned
    /\ call.budget < Len(result.after_topk)
    /\ call.top_k < Len(result.after_threshold)

\* C8: every call on a valid input returns, and every dropped item it returns
\* has a non-negative inclusion_margin.
C8_MarginNonNegative ==
    Called =>
        /\ Returned
        /\ \A i \in 1..Len(result.dropped) :
              result.dropped[i].inclusion_margin >= 0

C8_Witness ==
    /\ Returned
    /\ \E i \in 1..Len(result.dropped) : result.dropped[i].inclusion_margin > 0
    /\ \E i \in 1..Len(result.dropped) : result.dropped[i].inclusion_margin = 0

\* C9: the inclusion_margin of a dropped item is the boundary score that
\* boundary_items reports for the item's stage minus the item's score, and
\* that boundary score is present.
C9_MarginMatchesBoundary ==
    Returned =>
        \A i \in 1..Len(result.dropped) :
            LET d == result.dropped[i]
                b == result.boundary_items
            IN  /\ d.capacity_stage = "top_k" =>
                      /\ b.kth_score # None
                      /\ d.inclusion_margin = b.kth_score[1] - d.score
                /\ d.capacity_stage = "budget" =>
                      /\ b.budget_score # None
                      /\ d.inclusion_margin = b.budget_score[1] - d.score

C9_Witness ==
    /\ Returned
    /\ HasStage(result.dropped, "top_k")
    /\ HasStage(result.dropped, "budget")
    /\ result.boundary_items.kth_score # result.boundary_items.budget_score

\* C10: kth_item and kth_score are present exactly when top_k is below
\* |after_threshold|; when present they are the last element of after_topk and
\* its score; otherwise no dropped item has stage top_k.
C10_KthBoundary ==
    Returned =>
        LET b == result.boundary_items
            binding == call.top_k < Len(result.after_threshold)
            last == result.after_topk[Len(result.after_topk)]
        IN  /\ (b.kth_item # None) <=> binding
            /\ (b.kth_score # None) <=> binding
            /\ b.kth_item # None =>
                  /\ b.kth_item[1].id = last.id
                  /\ b.kth_item[1].score = last.score
                  /\ b.kth_score[1] = last.score
            /\ ~binding =>
                  /\ b.kth_item = None
                  /\ b.kth_score = None
                  /\ ~HasStage(result.dropped, "top_k")

C10_Witness ==
    /\ Returned
    /\ result.boundary_items.kth_item # None
    /\ Len(result.after_topk) < Len(result.after_threshold)

\* C11: budget_item and budget_score are present exactly when budget is below
\* |after_topk|; when present they are the last element of shown and its
\* score; otherwise no dropped item has stage budget.
C11_BudgetBoundary ==
    Returned =>
        LET b == result.boundary_items
            binding == call.budget < Len(result.after_topk)
            last == result.shown[Len(result.shown)]
        IN  /\ (b.budget_item # None) <=> binding
            /\ (b.budget_score # None) <=> binding
            /\ b.budget_item # None =>
                  /\ b.budget_item[1].id = last.id
                  /\ b.budget_item[1].score = last.score
                  /\ b.budget_score[1] = last.score
            /\ ~binding =>
                  /\ b.budget_item = None
                  /\ b.budget_score = None
                  /\ ~HasStage(result.dropped, "budget")

C11_Witness ==
    /\ Returned
    /\ call.budget = Len(result.after_topk)
    /\ call.budget <= call.top_k
    /\ call.top_k > Len(result.after_threshold)
    /\ result.shown # <<>>
    /\ result.boundary_items.budget_item = None

C13_Stages ==
    Returned =>
        LET StageCount(stage) ==
                Cardinality({i \in 1..Len(result.dropped) :
                                result.dropped[i].capacity_stage = stage})
        IN  /\ \A i \in 1..Len(result.dropped) :
                  LET d == result.dropped[i]
                  IN  /\ d.dropped_reason = "eligible but dropped by capacity"
                      /\ d.capacity_stage \in {"top_k", "budget"}
                      /\ d.capacity_stage = "top_k" <=>
                            /\ d.id \in IdSet(result.after_threshold)
                            /\ d.id \notin IdSet(result.after_topk)
                      /\ d.capacity_stage = "budget" <=>
                            /\ d.id \in IdSet(result.after_topk)
                            /\ d.id \notin IdSet(result.shown)
            /\ StageCount("top_k")
                 = Len(result.after_threshold) - Len(result.after_topk)
            /\ StageCount("budget")
                 = Len(result.after_topk) - Len(result.shown)

C13_Witness ==
    /\ Returned
    /\ HasStage(result.dropped, "top_k")
    /\ HasStage(result.dropped, "budget")
    /\ Len(result.shown) > 0

\* C17: on an empty population the call returns, all five sequences are
\* empty, all five counts are zero and kth_item and budget_item are absent.
C17_EmptyPopulation ==
    (Called /\ df = <<>>) =>
        /\ Returned
        /\ result.all_candidates = <<>>
        /\ result.after_threshold = <<>>
        /\ result.after_topk = <<>>
        /\ result.shown = <<>>
        /\ result.dropped = <<>>
        /\ result.counts = [n_total |-> 0, n_after_threshold |-> 0,
                            n_after_topk |-> 0, n_shown |-> 0, n_dropped |-> 0]
        /\ result.boundary_items.kth_item = None
        /\ result.boundary_items.budget_item = None

C17_Witness ==
    /\ Called
    /\ df = <<>>
    /\ result.status = "ok"
    /\ result.counts.n_total = 0

\* C18: when neither gate is binding, dropped is empty, shown equals
\* after_threshold and the empty dropped frame has every input column and the
\* columns dropped_reason, capacity_stage and inclusion_margin.
C18_NoDrops ==
    (/\ Returned
     /\ call.top_k >= Len(result.after_threshold)
     /\ call.budget >= Len(result.after_topk)) =>
        LET columns == {result.dropped_columns[i] :
                            i \in 1..Len(result.dropped_columns)}
        IN  /\ result.dropped = <<>>
            /\ result.shown = result.after_threshold
            /\ \A i \in 1..Len(InputColumns) : InputColumns[i] \in columns
            /\ {"dropped_reason", "capacity_stage", "inclusion_margin"}
                 \subseteq columns

C18_Witness ==
    /\ Returned
    /\ call.top_k >= Len(result.after_threshold)
    /\ call.budget >= Len(result.after_topk)
    /\ Len(result.shown) > 1
    /\ result.dropped = <<>>

IdsOf(rows) == [i \in 1..Len(rows) |-> rows[i].id]

\* C14: on the tie-breaking population with threshold 0.4, top_k 3 and budget
\* 2, all_candidates is C0003, C0001, C0002, C0004, all four pass the
\* threshold, after_topk is C0003, C0001, C0002, shown is C0003, C0001 and
\* dropped is C0002 (budget, margin 0) then C0004 (top_k, margin 0.1).
C14_TieBreaking ==
    (/\ Called
     /\ df = ScenarioRows
     /\ call.threshold = 4 /\ call.top_k = 3 /\ call.budget = 2) =>
        /\ Returned
        /\ IdsOf(result.all_candidates) = <<3, 1, 2, 4>>
        /\ IdsOf(result.after_threshold) = <<3, 1, 2, 4>>
        /\ IdsOf(result.after_topk) = <<3, 1, 2>>
        /\ IdsOf(result.shown) = <<3, 1>>
        /\ Len(result.dropped) = 2
        /\ result.dropped[1].id = 2
        /\ result.dropped[1].capacity_stage = "budget"
        /\ result.dropped[1].inclusion_margin = 0
        /\ result.dropped[2].id = 4
        /\ result.dropped[2].capacity_stage = "top_k"
        /\ result.dropped[2].inclusion_margin = 1

C14_Witness ==
    /\ Returned
    /\ df = ScenarioRows
    /\ call.threshold = 4 /\ call.top_k = 3 /\ call.budget = 2
    /\ Len(result.dropped) = 2

ValidParameters ==
    /\ call.threshold \in Thresholds
    /\ call.top_k >= 1
    /\ call.budget >= 1

\* C15: a call with top_k < 1, budget < 1 or a threshold outside [0,1] is
\* rejected with an input-validation error: it returns no ResultBundle and
\* raises no other kind of error.
C15_RejectsBadParameters ==
    (Called /\ ~ValidParameters) => result.status = "InputValidationError"

\* C16: a call on a population that holds an id twice is rejected with an
\* input-validation error: it returns no ResultBundle and does not fail an
\* internal invariant assertion.
C16_RejectsDuplicateIds ==
    (Called /\ ~UniqueIds(df)) => result.status = "InputValidationError"

\* C20: the result does not depend on the order in which the records are
\* supplied.  Every ordering of every record set is an initial population, and
\* the call on each of them returns what the call on the id-ordered
\* population returns, so any two orderings of the same records agree on the
\* whole bundle.
C20_OrderIndependent ==
    Called =>
        result = apply_constraints(IdOrder(df), call.threshold,
                                   call.top_k, call.budget)

C20_Witness ==
    /\ Returned
    /\ df # IdOrder(df)
    /\ \E i, j \in 1..Len(df) :
          i < j /\ df[i].score = df[j].score /\ df[i].id > df[j].id
    /\ result.shown # <<>>
    /\ result.dropped # <<>>

\* C23 as stated: every dropped item of every call on a valid input has an
\* inclusion_margin strictly greater than 0.
C23_MarginPositive ==
    Returned =>
        \A i \in 1..Len(result.dropped) : result.dropped[i].inclusion_margin > 0

\* the score at which the stage of a dropped item cut: the score of the last
\* element of after_topk, or of shown
CutoffScore(stage) ==
    IF stage = "top_k"
      THEN result.after_topk[Len(result.after_topk)].score
      ELSE result.shown[Len(result.shown)].score

\* C23 amended: every call on a valid input returns; every dropped item has an
\* inclusion_margin of at least 0, which is 0 exactly when the item's score
\* equals the cutoff score of its stage and greater than 0 exactly when the
\* score is below that cutoff.
C23_MarginZeroOnTie ==
    Called =>
        /\ Returned
        /\ \A i \in 1..Len(result.dropped) :
              LET d == result.dropped[i]
                  cutoff == CutoffScore(d.capacity_stage)
              IN  /\ d.inclusion_margin >= 0
                  /\ d.inclusion_margin = 0 <=> d.score = cutoff
                  /\ d.inclusion_margin > 0 <=> d.score < cutoff

C23_Witness ==
    /\ Returned
    /\ Len(result.dropped) > 1
    /\ result.dropped[1].inclusion_margin = 0
    /\ result.dropped[1].score = CutoffScore(result.dropped[1].capacity_stage)
    /\ result.dropped[Len(result.dropped)].inclusion_margin > 0

\* C25: every candidate of the population is in exactly one of three
\* outcomes: below the threshold (and then neither shown nor dropped), shown,
\* or dropped; n_total is the number of candidates below the threshold plus
\* n_shown plus n_dropped, and every dropped candidate passed the threshold.
C25_ThreeOutcomes ==
    Called =>
        /\ Returned
        /\ \A i \in 1..Len(df) :
              LET below == df[i].score < call.threshold
                  isShown == df[i].id \in IdSet(result.shown)
                  isDropped == df[i].id \in IdSet(result.dropped)
              IN  /\ below \/ isShown \/ isDropped
                  /\ ~(below /\ isShown)
                  /\ ~(below /\ isDropped)
                  /\ ~(isShown /\ isDropped)
        /\ result.counts.n_total
             = Cardinality({i \in 1..Len(df) : df[i].score < call.threshold})
               + result.counts.n_shown + result.counts.n_dropped
        /\ \A i \in 1..Len(result.dropped) :
              result.dropped[i].score >= call.threshold

C25_Witness ==
    /\ Returned
    /\ \E i \in 1..Len(df) : df[i].score < call.threshold
    /\ \E i \in 1..Len(df) : df[i].score = call.threshold
    /\ result.counts.n_shown > 0
    /\ result.counts.n_dropped > 0

IsPrefix(p, rows) == IsPrefixOfLength(p, rows, Len(p))

\* C26: shown is a prefix of after_topk, after_topk of after_threshold and
\* after_threshold of all_candidates; so shown is the head of all_candidates,
\* and no candidate that is not shown has a score higher than a shown one.
C26_PrefixChain ==
    Returned =>
        /\ IsPrefix(result.shown, result.after_topk)
        /\ IsPrefix(result.after_topk, result.after_threshold)
        /\ IsPrefix(result.after_threshold, result.all_candidates)
        /\ IsPrefix(result.shown, result.all_candidates)
        /\ \A i \in 1..Len(result.all_candidates) :
              result.all_candidates[i].id \notin IdSet(result.shown) =>
                  \A j \in 1..Len(result.shown) :
                      /\ j < i
                      /\ result.all_candidates[i].score <= result.shown[j].score

C26_Witness ==
    /\ Returned
    /\ 0 < Len(result.shown)
    /\ Len(result.shown) < Len(result.after_topk)
    /\ Len(result.after_topk) < Len(result.after_threshold)

\* C27: kth_item is present exactly when some dropped item has stage top_k,
\* budget_item exactly when some dropped item has stage budget; so when
\* dropped is not empty, get_boundary_for_stage finds for the first dropped
\* item the boundary item of that item's stage.
C27_BoundaryForStage ==
    Returned =>
        LET b == result.boundary_items
        IN  /\ (b.kth_item # None) <=> HasStage(result.dropped, "top_k")
            /\ (b.budget_item # None) <=> HasStage(result.dropped, "budget")
            /\ result.dropped # <<>> =>
                  LET closest == result.dropped[1]
                      found == get_boundary_for_stage(closest, b, call.top_k,
                                                      call.budget)
                  IN  /\ found[1] # None
                      /\ found[1] = IF closest.capacity_stage = "top_k"
                                      THEN b.kth_item ELSE b.budget_item
                      /\ found[2] # <<>>

C27_Witness ==
    /\ Returned
    /\ result.dropped # <<>>
    /\ result.dropped[1].capacity_stage = "budget"
    /\ result.boundary_items.kth_item = None
    /\ get_boundary_for_stage(result.dropped[1], result.boundary_items,
                              call.top_k, call.budget)[1] # None

Generated == call.status = "generated"

\* the number of rows whose case_type is not 'base'
EdgeCases(rows) == Cardinality({i \in 1..Len(rows) : rows[i].case_type # "base"})

Views == {"all_candidates", "after_threshold", "after_topk", "shown"}

\* a step leaves the shared population and every view assigned so far as
\* they are
FramesKept ==
    /\ df' = df
    /\ \A i \in Invocations :
          \A v \in Views \cap DOMAIN call[i] : call'[i][v] = call[i][v]

\* every row of every view assigned so far, and of every returned view, has
\* the input columns and no others
OnlyInputColumns ==
    LET columns == {InputColumns[k] : k \in 1..Len(InputColumns)}
        Plain(rows) == \A k \in 1..Len(rows) : DOMAIN rows[k] = columns
    IN  /\ Plain(df)
        /\ \A i \in Invocations :
              /\ \A v \in Views \cap DOMAIN call[i] : Plain(call[i][v])
              /\ result[i].status = "ok" =>
                    \A v \in Views : Plain(result[i][v])

\* C21: no step of apply_constraints changes the input population, and
\* building dropped changes none of all_candidates, after_threshold,
\* after_topk and shown: they keep their rows and do not gain the columns
\* dropped_reason, capacity_stage or inclusion_margin.
C21_NoMutation == [][FramesKept]_vars /\ []OnlyInputColumns

C21_Witness ==
    \E i \in Invocations :
        /\ call[i].pc = "done"
        /\ result[i].status = "ok"
        /\ HasStage(result[i].dropped, "top_k")
        /\ HasStage(result[i].dropped, "budget")
        /\ result[i].shown # <<>>
        /\ df = SharedRows

\* C22: under every interleaving of the steps of concurrent invocations with
\* distinct parameters, each invocation returns the bundle that
\* apply_constraints returns for its parameters when run alone on the
\* population, and the shared population stays as it was.
C22_ConcurrentAsAlone ==
    /\ df = SharedRows
    /\ \A i \in Invocations :
          call[i].pc = "done" =>
              result[i] = apply_constraints(SharedRows, call[i].threshold,
                                            call[i].top_k, call[i].budget)

C22_Witness ==
    \E i, j \in Invocations :
        /\ call[i].pc = "done"
        /\ call[j].pc = "done"
        /\ result[i].status = "ok"
        /\ result[j].status = "ok"
        /\ call[i].threshold # call[j].threshold
        /\ result[i].shown # result[j].shown
        /\ result[i].dropped # <<>>
        /\ df = SharedRows

====
